---- MODULE Spec2Model ----
(***************************************************************************)
(* A model of plugins/mgrep/hooks/mgrep_hook.py: the PreToolUse hook that  *)
(* replaces a Grep tool call by a run of `mgrep search`.                   *)
(*                                                                         *)
(* Text is a sequence of one-character strings, so that strip, splitlines, *)
(* the PATH_TOKEN regular expression, fnmatch, int() and str() are         *)
(* computed character by character.  A path is a record [root, segs].      *)
(* The file system of the model has no symbolic links, so that             *)
(* Path.resolve() is the lexical normalisation.                            *)
(***************************************************************************)
EXTENDS Integers, Sequences, FiniteSets, TLC

(***************************************************************************)
(* Bounds of the model.                                                    *)
(***************************************************************************)
\* longest stdout, in lines, the external command prints in Spec
MaxOut == 2
\* longest list of result lines handed to the pure functions in SpecFn
MaxLines == 2

(***************************************************************************)
(* Text helpers.                                                           *)
(***************************************************************************)
\* Python's None, where a str or None is expected
None == <<"None">>

\* the characters str.strip() and str.isspace() treat as white space
Whitespace == {" ", "\t", "\n"}

DecimalDigits == {"0", "1", "2", "3", "4", "5", "6", "7", "8", "9"}

\* U+00B2 SUPERSCRIPT TWO: a digit for str.isdigit(), not for int() nor \d
Sup2 == "U+00B2"

Letters == {"a", "b", "e", "f", "g", "k", "n", "o", "s", "t", "v", "w", "x", "y", "z"}

RECURSIVE lstrip(_)
lstrip(s) ==
    IF s # <<>> /\ Head(s) \in Whitespace THEN lstrip(Tail(s)) ELSE s

RECURSIVE rstrip(_)
rstrip(s) ==
    IF s # <<>> /\ s[Len(s)] \in Whitespace
    THEN rstrip(SubSeq(s, 1, Len(s) - 1))
    ELSE s

\* str.strip()
strip(s) == rstrip(lstrip(s))

\* str.startswith(prefix)
startswith(s, prefix) ==
    Len(s) >= Len(prefix) /\ SubSeq(s, 1, Len(prefix)) = prefix

\* s[n:]
DropFirst(s, n) == SubSeq(s, n + 1, Len(s))

\* str.isdigit(): non-empty, every character a digit (superscripts included)
isdigit(s) ==
    s # <<>> /\ \A i \in 1..Len(s) : s[i] \in DecimalDigits \cup {Sup2}

DigitValue(c) ==
    CASE c = "0" -> 0 [] c = "1" -> 1 [] c = "2" -> 2 [] c = "3" -> 3
      [] c = "4" -> 4 [] c = "5" -> 5 [] c = "6" -> 6 [] c = "7" -> 7
      [] c = "8" -> 8 [] c = "9" -> 9

DigitChar(d) ==
    CASE d = 0 -> "0" [] d = 1 -> "1" [] d = 2 -> "2" [] d = 3 -> "3"
      [] d = 4 -> "4" [] d = 5 -> "5" [] d = 6 -> "6" [] d = 7 -> "7"
      [] d = 8 -> "8" [] d = 9 -> "9"

RECURSIVE DigitsValue(_, _)
DigitsValue(s, acc) ==
    IF s = <<>> THEN acc ELSE DigitsValue(Tail(s), 10 * acc + DigitValue(Head(s)))

\* int(text): [exc, v]; optional surrounding white space and sign, then
\* decimal digits; anything else raises ValueError
int(text) ==
    LET t == strip(text)
        signed == t # <<>> /\ Head(t) \in {"-", "+"}
        digits == IF signed THEN Tail(t) ELSE t
    IN  IF digits # <<>> /\ \A i \in 1..Len(digits) : digits[i] \in DecimalDigits
        THEN [exc |-> "",
              v |-> IF signed /\ Head(t) = "-"
                    THEN 0 - DigitsValue(digits, 0)
                    ELSE DigitsValue(digits, 0)]
        ELSE [exc |-> "ValueError", v |-> 0]

RECURSIVE NatStr(_)
NatStr(n) ==
    IF n < 10 THEN <<DigitChar(n)>> ELSE NatStr(n \div 10) \o <<DigitChar(n % 10)>>

\* str(n) of an int
str(n) == IF n < 0 THEN <<"-">> \o NatStr(0 - n) ELSE NatStr(n)

\* sep.join(parts)
RECURSIVE join(_, _)
join(sep, parts) ==
    IF parts = <<>> THEN <<>>
    ELSE IF Len(parts) = 1 THEN parts[1]
    ELSE parts[1] \o sep \o join(sep, Tail(parts))

\* str.split(sep) for a one-character separator: empty fields are kept
RECURSIVE split(_, _, _)
split(s, sep, cur) ==
    IF s = <<>> THEN <<cur>>
    ELSE IF Head(s) = sep THEN <<cur>> \o split(Tail(s), sep, <<>>)
    ELSE split(Tail(s), sep, Append(cur, Head(s)))

\* str.splitlines(): the lines without their terminators; a final
\* terminator opens no empty last line
splitlines(s) ==
    LET parts == split(s, "\n", <<>>)
    IN  IF parts[Len(parts)] = <<>> THEN SubSeq(parts, 1, Len(parts) - 1) ELSE parts

\* all sequences over S of length at most n
SeqsUpTo(S, n) == UNION {[1..k -> S] : k \in 0..n}

(***************************************************************************)
(* Paths: pathlib's PurePosixPath as [root, segs].                         *)
(***************************************************************************)
RECURSIVE DropDots(_)
DropDots(segs) ==
    IF segs = <<>> THEN <<>>
    ELSE IF Head(segs) \in {<<>>, <<".">>} THEN DropDots(Tail(segs))
    ELSE <<Head(segs)>> \o DropDots(Tail(segs))

RECURSIVE CountSlashes(_)
CountSlashes(s) ==
    IF s # <<>> /\ Head(s) = "/" THEN 1 + CountSlashes(Tail(s)) ELSE 0

\* Path(text): empty and "." segments vanish, ".." stays; exactly two
\* leading slashes are kept as the root "//"
Path(text) ==
    LET k == CountSlashes(text)
        root == IF k = 0 THEN <<>> ELSE IF k = 2 THEN <<"/", "/">> ELSE <<"/">>
    IN  [root |-> root, segs |-> DropDots(split(text, "/", <<>>))]

\* Path.is_absolute()
is_absolute(p) == p.root # <<>>

\* PurePath.as_posix()
as_posix(p) ==
    IF p.root = <<>> /\ p.segs = <<>> THEN <<".">>
    ELSE p.root \o join(<<"/">>, p.segs)

\* base / other
PathJoin(base, other) ==
    IF is_absolute(other) THEN other
    ELSE [root |-> base.root, segs |-> base.segs \o other.segs]

RECURSIVE PopDotDot(_, _)
PopDotDot(segs, acc) ==
    IF segs = <<>> THEN acc
    ELSE IF Head(segs) = <<".", ".">>
         THEN PopDotDot(Tail(segs),
                        IF acc = <<>> THEN acc ELSE SubSeq(acc, 1, Len(acc) - 1))
    ELSE PopDotDot(Tail(segs), Append(acc, Head(segs)))

\* Path.resolve() of an absolute path on a file system without links
resolve(p) == [root |-> p.root, segs |-> PopDotDot(p.segs, <<>>)]

\* PurePath.relative_to(base): [exc, p]; lexical, ValueError when p is not
\* under base
relative_to(p, base) ==
    IF p.root = base.root /\ Len(p.segs) >= Len(base.segs)
       /\ SubSeq(p.segs, 1, Len(base.segs)) = base.segs
    THEN [exc |-> "", p |-> [root |-> <<>>, segs |-> DropFirst(p.segs, Len(base.segs))]]
    ELSE [exc |-> "ValueError", p |-> p]

\* the process's current directory, /w
Cwd == [root |-> <<"/">>, segs |-> <<(<<"w">>)>>]

\* words the code compares with or emits
NodeT == <<"n", "o", "d", "e">>

TrueT == <<"t", "r", "u", "e">>

YesT == <<"y", "e", "s">>

OnT == <<"o", "n">>

(***************************************************************************)
(* JSON values as json.loads returns them: [t, n, s, items].  A dict is    *)
(* held by its keys (items); the fields main reads from the payload and    *)
(* from tool_input are drawn when the code reads them.                     *)
(***************************************************************************)
J(t, n, s, items) == [t |-> t, n |-> n, s |-> s, items |-> items]

JNull == J("null", 0, <<>>, <<>>)

JBool(b) == J("bool", IF b THEN 1 ELSE 0, <<>>, <<>>)

JInt(n) == J("int", n, <<>>, <<>>)

JFloat(n) == J("float", n, <<>>, <<>>)

JStr(s) == J("str", 0, s, <<>>)

JList(items) == J("list", 0, <<>>, items)

JDict(keys) == J("dict", 0, <<>>, keys)

\* bool(value)
Truthy(j) ==
    CASE j.t = "null" -> FALSE
      [] j.t \in {"bool", "int", "float"} -> j.n # 0
      [] j.t = "str" -> j.s # <<>>
      [] j.t \in {"list", "dict"} -> j.items # <<>>

\* isinstance(value, int): bool is a subclass of int
IsInt(j) == j.t \in {"int", "bool"}

\* hash(value) raises TypeError for a list and a dict
Hashable(j) == j.t \notin {"list", "dict"}

(***************************************************************************)
(* _env_int, lines 17-24, and the module constants, lines 35-39.           *)
(***************************************************************************)
\* the default of MGREP_HOOK_MAX_RESULTS, line 37
BuiltinMaxResults == 20

\* _env_int(name, default) where value is os.environ.get(name)
_env_int(value, default) ==
    IF value = None THEN default
    ELSE IF int(value).exc = "" THEN int(value).v ELSE default

(***************************************************************************)
(* normalize_globs, lines 60-72.                                           *)
(***************************************************************************)
RECURSIVE StrippedEntries(_)
StrippedEntries(items) ==
    IF items = <<>> THEN <<>>
    ELSE IF Head(items).t = "str" /\ strip(Head(items).s) # <<>>
         THEN <<strip(Head(items).s)>> \o StrippedEntries(Tail(items))
    ELSE StrippedEntries(Tail(items))

normalize_globs(value) ==
    IF value.t = "str"
    THEN IF strip(value.s) # <<>> THEN <<strip(value.s)>> ELSE <<>>
    ELSE IF value.t \in {"list", "dict"} THEN StrippedEntries(value.items)
    ELSE <<>>

(***************************************************************************)
(* The file system: the directories that exist.                            *)
(***************************************************************************)
ExistingPaths ==
    {[root |-> <<"/">>, segs |-> <<>>],
     Cwd,
     [root |-> <<"/">>, segs |-> <<(<<"w">>), (<<"s">>)>>],
     [root |-> <<"/">>, segs |-> <<(<<"e">>)>>]}

\* Path.exists(), a relative path taken from the current directory
exists(p) == resolve(PathJoin(Cwd, p)) \in ExistingPaths

(***************************************************************************)
(* resolve_workspace .. compute_cli_path_arg, lines 74-105.  No path of    *)
(* the model starts with "~", so expanduser() changes nothing.             *)
(***************************************************************************)
resolve_workspace(cwd_value) ==
    IF cwd_value.t = "str" /\ strip(cwd_value.s) # <<>> /\ exists(Path(cwd_value.s))
    THEN resolve(PathJoin(Cwd, Path(cwd_value.s)))
    ELSE resolve(Cwd)

resolve_scope_path(raw_path, workspace) ==
    IF raw_path.t = "str" /\ strip(raw_path.s) # <<>>
    THEN IF is_absolute(Path(raw_path.s))
         THEN Path(raw_path.s)
         ELSE resolve(PathJoin(workspace, Path(raw_path.s)))
    ELSE workspace

describe_scope(scope, workspace) ==
    IF relative_to(scope, workspace).exc = ""
    THEN as_posix(relative_to(scope, workspace).p)
    ELSE as_posix(scope)

compute_cli_path_arg(scope, workspace) ==
    IF relative_to(scope, workspace).exc = ""
    THEN LET rel_text == as_posix(relative_to(scope, workspace).p)
         IN  IF rel_text = <<>> \/ rel_text = <<".">> THEN None ELSE rel_text
    ELSE as_posix(scope)

(***************************************************************************)
(* resolve_mgrep_command, lines 107-123, and is_disabled, lines 221-223.   *)
(***************************************************************************)
RECURSIVE Words(_, _)
Words(s, cur) ==
    IF s = <<>> THEN IF cur = <<>> THEN <<>> ELSE <<cur>>
    ELSE IF Head(s) \in Whitespace
         THEN (IF cur = <<>> THEN <<>> ELSE <<cur>>) \o Words(Tail(s), <<>>)
    ELSE Words(Tail(s), Append(cur, Head(s)))

\* shlex.split(text) of a text with at most one quote character and no
\* backslash: [exc, v]; a quote that is never closed raises ValueError
shlex_split(text) ==
    IF \E i \in 1..Len(text) : text[i] = "\""
    THEN [exc |-> "ValueError", v |-> <<>>]
    ELSE [exc |-> "", v |-> Words(text, <<>>)]

\* env: [MGREP_BIN, which, dist] with which = shutil.which("mgrep") and
\* dist = the path of <plugin root>/../../dist/index.js when it exists.
\* [exc, v] with v the argument vector or None
resolve_mgrep_command(env) ==
    IF env.MGREP_BIN # None /\ env.MGREP_BIN # <<>>
    THEN shlex_split(env.MGREP_BIN)
    ELSE IF env.which # None /\ env.which # <<>>
         THEN [exc |-> "", v |-> <<env.which>>]
    ELSE IF env.dist # None
         THEN [exc |-> "", v |-> <<NodeT, env.dist>>]
    ELSE [exc |-> "", v |-> None]

\* str.lower() on the letters of the model
LowerChar(c) ==
    CASE c = "O" -> "o" [] c = "N" -> "n" [] c = "G" -> "g" [] c = "B" -> "b"
      [] OTHER -> c

lower(s) == [i \in 1..Len(s) |-> LowerChar(s[i])]

\* is_disabled() where value is os.environ.get("MGREP_HOOK_DISABLE")
is_disabled(value) ==
    value # None /\ value # <<>>
    /\ lower(value) \in {<<"1">>, TrueT, YesT, OnT}

(***************************************************************************)
(* parse_max_results, lines 125-132.                                       *)
(***************************************************************************)
MaxKeys == <<"--max-count", "-m", "max_count">>

Clamp(n) ==
    LET lo == IF n < 100 THEN n ELSE 100
    IN  IF lo > 1 THEN lo ELSE 1

\* tool_input: the values of the three keys (JNull for a missing key);
\* [exc, v]: int() of a digit string that is no decimal number raises
RECURSIVE ParseFrom(_, _, _)
ParseFrom(tool_input, i, default) ==
    IF i > Len(MaxKeys) THEN [exc |-> "", v |-> default]
    ELSE LET value == tool_input[MaxKeys[i]]
         IN  IF IsInt(value) THEN [exc |-> "", v |-> Clamp(value.n)]
             ELSE IF value.t = "str" /\ isdigit(value.s)
                  THEN IF int(value.s).exc = ""
                       THEN [exc |-> "", v |-> Clamp(int(value.s).v)]
                       ELSE [exc |-> "ValueError", v |-> 0]
             ELSE ParseFrom(tool_input, i + 1, default)

parse_max_results(tool_input, default) == ParseFrom(tool_input, 1, default)

(***************************************************************************)
(* extract_paths, lines 134-163, with PATH_TOKEN, line 39.                 *)
(***************************************************************************)
\* PATH_TOKEN.search(line): ^(?P<path>.+?)(?=:\d), the shortest non-empty
\* prefix followed by a colon and a decimal digit; None without a match
PATH_TOKEN(line) ==
    LET ends == {i \in 1..Len(line) :
                    /\ i + 2 <= Len(line)
                    /\ line[i + 1] = ":"
                    /\ line[i + 2] \in DecimalDigits}
    IN  IF ends = {} THEN None
        ELSE SubSeq(line, 1, CHOOSE i \in ends : \A j \in ends : i <= j)

\* line.find(":"), 0-based, -1 when there is none
FindColon(line) ==
    LET at == {i \in 1..Len(line) : line[i] = ":"}
    IN  IF at = {} THEN -1 ELSE (CHOOSE i \in at : \A j \in at : i <= j) - 1

\* lines 135-140: the leading path token, None or empty when there is none
RawPath(line) ==
    IF PATH_TOKEN(line) # None THEN PATH_TOKEN(line)
    ELSE IF FindColon(line) # -1 THEN SubSeq(line, 1, FindColon(line))
    ELSE None

\* lines 145-150
StripDotPrefix(cleaned) ==
    IF startswith(cleaned, <<".", "/">>)
    THEN IF DropFirst(cleaned, 2) # <<>> THEN DropFirst(cleaned, 2) ELSE <<".">>
    ELSE IF startswith(cleaned, <<".">>)
         THEN IF DropFirst(cleaned, 1) # <<>> THEN DropFirst(cleaned, 1) ELSE <<".">>
    ELSE cleaned

\* re.match(r"^[A-Za-z]:", rel)
DriveLetter(rel) == Len(rel) >= 2 /\ rel[1] \in Letters /\ rel[2] = ":"

\* [display_path, rel_path, abs_path], each a text or None
extract_paths(line, workspace) ==
    LET raw_path == RawPath(line)
    IN  IF raw_path = None \/ raw_path = <<>>
        THEN [display_path |-> None, rel_path |-> None, abs_path |-> None]
        ELSE LET cleaned == strip(raw_path)
                 rel == StripDotPrefix(cleaned)
                 abs_path == IF startswith(rel, <<"/">>) \/ DriveLetter(rel)
                             THEN Path(rel)
                             ELSE resolve(PathJoin(workspace, Path(rel)))
                 rel_path == IF relative_to(abs_path, workspace).exc = ""
                             THEN as_posix(relative_to(abs_path, workspace).p)
                             ELSE as_posix(abs_path)
             IN  [display_path |-> IF startswith(cleaned, <<".">>)
                                   THEN cleaned ELSE rel_path,
                  rel_path |-> rel_path,
                  abs_path |-> as_posix(abs_path)]

(***************************************************************************)
(* filter_by_glob, lines 165-177.                                          *)
(***************************************************************************)
\* fnmatch.fnmatch(name, pat) on POSIX, for patterns of "*", "?" and plain
\* characters (no "[" class): the whole name must match
RECURSIVE fnmatch(_, _)
fnmatch(name, pat) ==
    IF pat = <<>> THEN name = <<>>
    ELSE IF Head(pat) = "*"
         THEN fnmatch(name, Tail(pat)) \/ (name # <<>> /\ fnmatch(Tail(name), pat))
    ELSE IF Head(pat) = "?"
         THEN name # <<>> /\ fnmatch(Tail(name), Tail(pat))
    ELSE name # <<>> /\ Head(name) = Head(pat) /\ fnmatch(Tail(name), Tail(pat))

\* the test made on the relative path alone
KeepsLineRelOnly(line, patterns, workspace) ==
    LET e == extract_paths(line, workspace)
        falsy(x) == x = None \/ x = <<>>
    IN  IF falsy(e.rel_path) /\ falsy(e.abs_path) THEN TRUE
        ELSE \E i \in 1..Len(patterns) : fnmatch(e.rel_path, patterns[i])

\* lines 170-176: whether the loop body appends the line
KeepsLine(line, patterns, workspace) ==
    LET e == extract_paths(line, workspace)
        falsy(x) == x = None \/ x = <<>>
    IN  IF falsy(e.rel_path) /\ falsy(e.abs_path) THEN TRUE
        ELSE \E i \in 1..Len(patterns) :
                \E val \in {e.rel_path, e.abs_path} :
                    ~falsy(val) /\ fnmatch(val, patterns[i])

RECURSIVE FilterLoop(_, _, _)
FilterLoop(lines, patterns, workspace) ==
    IF lines = <<>> THEN <<>>
    ELSE (IF KeepsLine(Head(lines), patterns, workspace) THEN <<Head(lines)>> ELSE <<>>)
         \o FilterLoop(Tail(lines), patterns, workspace)

filter_by_glob(lines, patterns, workspace) ==
    IF patterns = <<>> THEN lines ELSE FilterLoop(lines, patterns, workspace)

(***************************************************************************)
(* build_payload, lines 179-199.                                           *)
(***************************************************************************)
HeaderT == <<"M", "G", "r", "e", "p", " ", "s", "e", "m", "a", "n", "t", "i", "c", " ", "s", "e", "a", "r", "c", "h", " ", "f", "o", "r", " ">>

InT == <<" ", "i", "n", " ">>

NoMatchesT == <<"N", "o", " ", "s", "e", "m", "a", "n", "t", "i", "c", " ", "m", "a", "t", "c", "h", "e", "s", " ", "f", "o", "u", "n", "d", ".">>

ContentT == <<"c", "o", "n", "t", "e", "n", "t">>

PathsT == <<"p", "a", "t", "h", "s">>

\* repr(text) of a text without quote, backslash or non-printable character
\* other than tab and newline
RECURSIVE Escaped(_)
Escaped(s) ==
    IF s = <<>> THEN <<>>
    ELSE (CASE Head(s) = "\t" -> <<"\\", "t">>
            [] Head(s) = "\n" -> <<"\\", "n">>
            [] OTHER -> <<Head(s)>>) \o Escaped(Tail(s))

repr(text) == <<"'">> \o Escaped(text) \o <<"'">>

\* line 193: display_path or rel_path or abs_path or line
BestValue(line, workspace) ==
    LET e == extract_paths(line, workspace)
        falsy(x) == x = None \/ x = <<>>
    IN  IF ~falsy(e.display_path) THEN e.display_path
        ELSE IF ~falsy(e.rel_path) THEN e.rel_path
        ELSE IF ~falsy(e.abs_path) THEN e.abs_path
        ELSE line

\* the loop without the `not in seen` test
RECURSIVE SeenLoopNoTest(_, _, _)
SeenLoopNoTest(lines, workspace, seen) ==
    IF lines = <<>> THEN seen
    ELSE SeenLoopNoTest(Tail(lines), workspace,
                        Append(seen, BestValue(Head(lines), workspace)))

\* lines 190-195: the list `seen`
RECURSIVE SeenLoop(_, _, _)
SeenLoop(lines, workspace, seen) ==
    IF lines = <<>> THEN seen
    ELSE LET value == BestValue(Head(lines), workspace)
         IN  SeenLoop(Tail(lines), workspace,
                      IF \E i \in 1..Len(seen) : seen[i] = value
                      THEN seen ELSE Append(seen, value))

\* the values joined into the body, lines 189-198
BodyValues(lines, output_mode, workspace) ==
    IF output_mode = PathsT THEN SeenLoop(lines, workspace, <<>>) ELSE lines

build_payload(lines, pattern, scope_label, output_mode, workspace) ==
    LET header == HeaderT \o repr(pattern) \o InT \o scope_label
    IN  IF lines = <<>> THEN header \o <<"\n">> \o NoMatchesT
        ELSE header \o <<"\n">> \o join(<<"\n">>, BodyValues(lines, output_mode, workspace))

(***************************************************************************)
(* The state: main's position and locals, what the process has written and *)
(* how it ended; and, for the pure functions taken alone, one call and its *)
(* result.                                                                 *)
(***************************************************************************)
VARIABLES
    pc,                   \* where main is
    DEFAULT_MAX_RESULTS,  \* line 37, set when the module is loaded
    payload,              \* read_hook_input(), a JSON value or JNull for None
    tool_name,            \* payload.get("tool_name") as line 229 read it
    pattern,              \* line 236
    command_prefix,       \* line 248
    workspace,            \* line 253
    scope_label,          \* line 255
    path_arg,             \* line 256
    case_insensitive,     \* line 258
    max_results,          \* line 259
    output_mode,          \* lines 260-262
    glob_patterns,        \* line 264
    store_override,       \* line 265
    command,              \* lines 267-276
    runs,                 \* how many times subprocess.run was called
    outcome,              \* how the external command ended
    stdout,               \* line 279
    stderr,               \* the documents printed to standard error, line 296
    exc,                  \* the exception that left main, "" when none did
    exit_status,          \* the process's exit status, NotExited while it runs
    checks,               \* the precondition checks made so far, in order
    call,                 \* SpecFn: the function called and its arguments
    ret                   \* SpecFn: what it returned

vars ==
    <<pc, DEFAULT_MAX_RESULTS, payload, tool_name, pattern, command_prefix, workspace,
      scope_label, path_arg, case_insensitive, max_results, output_mode,
      glob_patterns, store_override, command, runs, outcome, stdout, stderr, exc, exit_status,
      checks, call, ret>>

mainVars ==
    <<pc, DEFAULT_MAX_RESULTS, payload, tool_name, pattern, command_prefix, workspace,
      scope_label, path_arg, case_insensitive, max_results, output_mode,
      glob_patterns, store_override, command, runs, outcome, stdout, stderr, exc, exit_status,
      checks>>

NotExited == 0 - 1

(***************************************************************************)
(* The inputs the model draws from.                                        *)
(***************************************************************************)
FooT == <<"f", "o", "o">>

\* values of os.environ.get("MGREP_HOOK_MAX_RESULTS")
EnvMaxResults == {None, <<"0">>, <<"5", "0", "0">>, <<"x", "y">>}

\* what json.loads can return for the document on standard input; the last
\* one is any dict with a key, whose fields are drawn when main reads them
Payloads ==
    {JNull, JBool(FALSE), JInt(0), JInt(5), JStr(<<"x">>), JList(<<>>),
     JList(<<JInt(1)>>), JDict(<<>>), JDict(<<JStr(<<"k">>)>>)}

GrepT == <<"G", "r", "e", "p">>

\* payload.get("tool_name")
ToolNames == {JNull, JStr(GrepT), JStr(<<"B", "a", "s", "h">>), JStr(<<"g", "r", "e", "p">>), JInt(1)}

\* payload.get("tool_input"): whether it is a dict, and if not what it is
ToolInputs == {JNull, JStr(FooT), JList(<<JStr(FooT)>>), JDict(<<JStr(<<"p", "a", "t", "t", "e", "r", "n">>)>>)}

\* tool_input.get("pattern")
Patterns == {JNull, JInt(1), JStr(<<>>), JStr(<<" ", " ">>), JStr(FooT), JStr(<<" ", "f", "o", "o", " ">>)}

\* os.environ.get("MGREP_HOOK_DISABLE")
EnvDisable == {None, <<>>, <<"1">>, <<"O", "N">>, <<"0">>}

\* the environment resolve_mgrep_command reads
EnvCommands ==
    {[MGREP_BIN |-> None, which |-> <<"/", "b", "/", "m", "g", "r", "e", "p">>, dist |-> None],
     [MGREP_BIN |-> None, which |-> None, dist |-> <<"x">>],
     [MGREP_BIN |-> None, which |-> None, dist |-> None],
     [MGREP_BIN |-> <<" ">>, which |-> <<"/", "b", "/", "m", "g", "r", "e", "p">>, dist |-> None],
     [MGREP_BIN |-> <<"n", "o", "d", "e", " ", "\"", "x">>, which |-> None, dist |-> None],
     [MGREP_BIN |-> <<"n", "o", "d", "e", " ", "x">>, which |-> None, dist |-> None]}

\* payload.get("cwd")
CwdValues == {JNull, JInt(1), JStr(<<"/", "n", "x">>), JStr(<<"/", "e", "/", ".", ".", "/", "w">>)}

\* tool_input.get("path")
PathValues == {JNull, JStr(<<"s">>), JStr(<<"/", "e">>)}

\* tool_input.get("-i") and tool_input.get("--ignore-case")
FlagValues == {JNull, JBool(TRUE), JBool(FALSE)}

\* the values of the max-results keys main is run with
MainMaxValues == {JNull, JInt(5), JStr(<<"5", "0", "0">>), JStr(<<Sup2>>)}

\* tool_input.get("output_mode")
ModeValues == {JNull, JStr(ContentT), JStr(PathsT), JStr(<<"f", "i", "l", "e", "s">>), JInt(1), JList(<<JStr(PathsT)>>)}

\* tool_input.get("glob")
GlobValues == {JNull, JStr(<<" ", "*", ".", "g", "o", " ">>), JList(<<JStr(<<"*", ".", "t", "s">>), JInt(1), JStr(<<" ">>)>>)}

\* os.environ.get("MGREP_STORE")
EnvStore == {None, <<>>, <<"s", "t">>}

\* how subprocess.run can end, lines 202-219: the two exceptions run_mgrep
\* catches, another OSError (the file is not executable), output that is
\* not valid UTF-8, a non-zero exit status, and exit status 0
Outcomes == {"FileNotFoundError", "TimeoutExpired", "OSError", "UnicodeDecodeError", "nonzero", "zero"}

\* the result lines the external command prints in Spec
MainLines == {<<"a", ".", "g", "o", ":", "1", ":", "x">>, <<"b", ".", "t", "s", ":", "2", ":", "y">>, <<" ">>}

\* the text of stdout: every line with its terminator
Unlines(ls) == join(<<>>, [i \in 1..Len(ls) |-> ls[i] \o <<"\n">>])

SearchT == <<"s", "e", "a", "r", "c", "h">>

DashI == <<"-", "i">>

DashM == <<"-", "m">>

StoreFlag == <<"-", "-", "s", "t", "o", "r", "e">>

\* the texts the external command can print on exit status 0
Stdouts == {Unlines(ls) : ls \in SeqsUpTo(MainLines, MaxOut)}

(***************************************************************************)
(* main, lines 225-297, one action per statement group.                    *)
(***************************************************************************)
\* one precondition check of main and whether it let main go on
Check(name, passed) == [check |-> name, passed |-> passed]

\* a comparison that ignores case
IsGrepAnyCase(name) == name.t = "str" /\ lower(name.s) = lower(GrepT)

\* line 229: payload.get("tool_name") == "Grep"
IsGrep(name) == name = JStr(GrepT)

\* the check without the strip(): a white-space-only pattern passes
PatternOkUnstripped(value) == value.t = "str" /\ value.s # <<>>

\* line 237: a str with a character that is no white space
PatternOk(value) == value.t = "str" /\ strip(value.s) # <<>>

\* return 0 / return 2 followed by sys.exit, line 300
Return(status) ==
    /\ pc' = "done"
    /\ exit_status' = status
    /\ exc' = exc

\* an exception nobody catches: the interpreter prints the traceback and
\* exits with status 1
Raise(name) ==
    /\ pc' = "done"
    /\ exit_status' = 1
    /\ exc' = name

Continue(next) ==
    /\ pc' = next
    /\ exit_status' = exit_status
    /\ exc' = exc

\* lines 50-58 and 226-228
ReadHookInput ==
    /\ pc = "read_hook_input"
    /\ \E stdin \in {"blank", "invalid", "json"} :
         \E doc \in Payloads :
            /\ stdin # "json" => doc = JNull
            /\ payload' = doc
            /\ checks' = Append(checks, Check("payload", Truthy(doc)))
            /\ IF Truthy(doc) THEN Continue("tool_name") ELSE Return(0)
    /\ UNCHANGED <<DEFAULT_MAX_RESULTS, tool_name, pattern, command_prefix,
                   workspace, scope_label, path_arg, case_insensitive,
                   max_results, output_mode, glob_patterns, store_override,
                   command, runs, outcome, stdout, stderr, call, ret>>

\* lines 229-230: payload.get exists only on a dict
CheckToolName ==
    /\ pc = "tool_name"
    /\ IF payload.t # "dict"
       THEN /\ Raise("AttributeError")
            /\ UNCHANGED <<tool_name, checks>>
       ELSE \E name \in ToolNames :
               /\ tool_name' = name
               /\ checks' = Append(checks, Check("tool_name", IsGrep(name)))
               /\ IF ~IsGrep(name) THEN Return(0) ELSE Continue("tool_input")
    /\ UNCHANGED <<DEFAULT_MAX_RESULTS, payload, pattern, command_prefix,
                   workspace, scope_label, path_arg, case_insensitive,
                   max_results, output_mode, glob_patterns, store_override,
                   command, runs, outcome, stdout, stderr, call, ret>>

\* lines 232-234
CheckToolInput ==
    /\ pc = "tool_input"
    /\ \E tool_input \in ToolInputs :
          /\ checks' = Append(checks, Check("tool_input", tool_input.t = "dict"))
          /\ IF tool_input.t # "dict" THEN Return(0) ELSE Continue("pattern")
    /\ UNCHANGED <<DEFAULT_MAX_RESULTS, payload, tool_name, pattern,
                   command_prefix, workspace, scope_label, path_arg,
                   case_insensitive, max_results, output_mode, glob_patterns,
                   store_override, command, runs, outcome, stdout, stderr,
                   call, ret>>

\* lines 236-238
CheckPattern ==
    /\ pc = "pattern"
    /\ \E value \in Patterns :
          /\ pattern' = value
          /\ checks' = Append(checks, Check("pattern", PatternOk(value)))
          /\ IF ~PatternOk(value) THEN Return(0) ELSE Continue("is_disabled")
    /\ UNCHANGED <<DEFAULT_MAX_RESULTS, payload, tool_name, command_prefix,
                   workspace, scope_label, path_arg, case_insensitive,
                   max_results, output_mode, glob_patterns, store_override,
                   command, runs, outcome, stdout, stderr, call, ret>>

\* lines 240-242
CheckDisabled ==
    /\ pc = "is_disabled"
    /\ \E value \in EnvDisable :
          /\ checks' = Append(checks, Check("is_disabled", ~is_disabled(value)))
          /\ IF is_disabled(value) THEN Return(0) ELSE Continue("token")
    /\ UNCHANGED <<DEFAULT_MAX_RESULTS, payload, tool_name, pattern,
                   command_prefix, workspace, scope_label, path_arg,
                   case_insensitive, max_results, output_mode, glob_patterns,
                   store_override, command, runs, outcome, stdout, stderr,
                   call, ret>>

\* lines 244-246
CheckToken ==
    /\ pc = "token"
    /\ \E token_exists \in BOOLEAN :
          /\ checks' = Append(checks, Check("token", token_exists))
          /\ IF ~token_exists THEN Return(0) ELSE Continue("resolve_command")
    /\ UNCHANGED <<DEFAULT_MAX_RESULTS, payload, tool_name, pattern,
                   command_prefix, workspace, scope_label, path_arg,
                   case_insensitive, max_results, output_mode, glob_patterns,
                   store_override, command, runs, outcome, stdout, stderr,
                   call, ret>>

\* lines 248-251
ResolveCommand ==
    /\ pc = "resolve_command"
    /\ \E env \in EnvCommands :
          LET r == resolve_mgrep_command(env)
          IN  IF r.exc # ""
              THEN /\ Raise(r.exc)
                   /\ UNCHANGED <<command_prefix, checks>>
              ELSE /\ command_prefix' = r.v
                   /\ checks' = Append(checks, Check("command", r.v # None /\ r.v # <<>>))
                   /\ IF r.v = None \/ r.v = <<>>
                      THEN Return(0) ELSE Continue("resolve_paths")
    /\ UNCHANGED <<DEFAULT_MAX_RESULTS, payload, tool_name, pattern,
                   workspace, scope_label, path_arg, case_insensitive,
                   max_results, output_mode, glob_patterns, store_override,
                   command, runs, outcome, stdout, stderr, call, ret>>

\* lines 253-256
ResolvePaths ==
    /\ pc = "resolve_paths"
    /\ \E cwd_value \in CwdValues, raw_path \in PathValues :
          LET ws == resolve_workspace(cwd_value)
              scope == resolve_scope_path(raw_path, ws)
          IN  /\ workspace' = ws
              /\ scope_label' = describe_scope(scope, ws)
              /\ path_arg' = compute_cli_path_arg(scope, ws)
    /\ Continue("parse_options")
    /\ UNCHANGED <<DEFAULT_MAX_RESULTS, payload, tool_name, pattern,
                   command_prefix, case_insensitive, max_results,
                   output_mode, glob_patterns, store_override, command, runs,
                   outcome, stdout, stderr, checks, call, ret>>

MaxKeySet == {MaxKeys[i] : i \in 1..Len(MaxKeys)}

\* lines 258-259
ParseOptions ==
    /\ pc = "parse_options"
    /\ \E i \in FlagValues, ignore_case \in FlagValues :
          case_insensitive' = (Truthy(i) \/ Truthy(ignore_case))
    /\ \E tool_input \in [MaxKeySet -> MainMaxValues] :
          LET r == parse_max_results(tool_input, DEFAULT_MAX_RESULTS)
          IN  IF r.exc # ""
              THEN Raise(r.exc) /\ UNCHANGED max_results
              ELSE Continue("shape_options") /\ max_results' = r.v
    /\ UNCHANGED <<DEFAULT_MAX_RESULTS, payload, tool_name, pattern,
                   command_prefix, workspace, scope_label, path_arg,
                   output_mode, glob_patterns, store_override, command, runs,
                   outcome, stdout, stderr, checks, call, ret>>

\* lines 260-264: `not in` hashes its left operand
ShapeOptions ==
    /\ pc = "shape_options"
    /\ \E mode \in ModeValues, glob \in GlobValues :
          LET value == IF Truthy(mode) THEN mode ELSE JStr(ContentT)
          IN  IF ~Hashable(value)
              THEN Raise("TypeError") /\ UNCHANGED <<output_mode, glob_patterns>>
              ELSE /\ output_mode' = IF value \in {JStr(ContentT), JStr(PathsT)}
                                     THEN value.s ELSE ContentT
                   /\ glob_patterns' = normalize_globs(glob)
                   /\ Continue("build_command")
    /\ UNCHANGED <<DEFAULT_MAX_RESULTS, payload, tool_name, pattern,
                   command_prefix, workspace, scope_label, path_arg,
                   case_insensitive, max_results, store_override, command,
                   runs, outcome, stdout, stderr, checks, call, ret>>

\* a command built with the pattern trimmed
CommandVectorTrimmed(prefix, ci, maxres, store, pat, patharg) ==
    prefix \o <<SearchT>>
    \o (IF ci THEN <<DashI>> ELSE <<>>)
    \o (IF maxres # 0 THEN <<DashM, str(maxres)>> ELSE <<>>)
    \o (IF store # None /\ store # <<>> THEN <<StoreFlag, store>> ELSE <<>>)
    \o <<strip(pat)>>
    \o (IF patharg # None /\ patharg # <<>> THEN <<patharg>> ELSE <<>>)

\* lines 267-276 with store = os.environ.get("MGREP_STORE")
CommandVector(prefix, ci, maxres, store, pat, patharg) ==
    prefix \o <<SearchT>>
    \o (IF ci THEN <<DashI>> ELSE <<>>)
    \o (IF maxres # 0 THEN <<DashM, str(maxres)>> ELSE <<>>)
    \o (IF store # None /\ store # <<>> THEN <<StoreFlag, store>> ELSE <<>>)
    \o <<pat>>
    \o (IF patharg # None /\ patharg # <<>> THEN <<patharg>> ELSE <<>>)

\* lines 265-276
BuildCommand ==
    /\ pc = "build_command"
    /\ \E value \in EnvStore :
          /\ store_override' = value
          /\ command' = CommandVector(command_prefix, case_insensitive, max_results,
                                      value, pattern.s, path_arg)
    /\ Continue("run_mgrep")
    /\ UNCHANGED <<DEFAULT_MAX_RESULTS, payload, tool_name, pattern,
                   command_prefix, workspace, scope_label, path_arg,
                   case_insensitive, max_results, output_mode, glob_patterns,
                   runs, outcome, stdout, stderr, checks, call, ret>>

\* what run_mgrep does with the way subprocess.run ended, lines 201-219:
\* "None", "stdout", or the exception it lets through
run_mgrep(how) ==
    CASE how \in {"FileNotFoundError", "TimeoutExpired"} -> "None"
      [] how = "nonzero" -> "None"
      [] how = "zero" -> "stdout"
      [] OTHER -> how

\* lines 279-281
RunMgrep ==
    /\ pc = "run_mgrep"
    /\ runs' = runs + 1
    /\ \E how \in Outcomes :
          /\ outcome' = how
          /\ IF run_mgrep(how) = "stdout"
             THEN (\E text \in Stdouts : stdout' = text) /\ Continue("respond")
             ELSE /\ UNCHANGED stdout
                  /\ IF run_mgrep(how) = "None" THEN Return(0) ELSE Raise(how)
    /\ UNCHANGED <<DEFAULT_MAX_RESULTS, payload, tool_name, pattern,
                   command_prefix, workspace, scope_label, path_arg,
                   case_insensitive, max_results, output_mode, glob_patterns,
                   store_override, command, stderr, checks, call, ret>>

\* line 283
NonBlank(lines) == SelectSeq(lines, LAMBDA line : strip(line) # <<>>)

\* lines 287-294
Envelope(payload_text) ==
    [hookEventName |-> "PreToolUse",
     permissionDecision |-> "deny",
     permissionDecisionReason |-> "Semantic search completed by mgrep",
     additionalContext |-> payload_text]

\* lines 283-297
Respond ==
    /\ pc = "respond"
    /\ LET lines == filter_by_glob(NonBlank(splitlines(stdout)), glob_patterns, workspace)
           payload_text == build_payload(lines, pattern.s, scope_label, output_mode, workspace)
       IN  stderr' = Append(stderr, Envelope(payload_text))
    /\ Return(2)
    /\ UNCHANGED <<DEFAULT_MAX_RESULTS, payload, tool_name, pattern,
                   command_prefix, workspace, scope_label, path_arg,
                   case_insensitive, max_results, output_mode, glob_patterns,
                   store_override, command, runs, outcome, stdout, checks,
                   call, ret>>

NoCall ==
    [fn |-> "", tool_input |-> [k \in MaxKeySet |-> JNull], default |-> 0,
     lines |-> <<>>, patterns |-> <<>>, output_mode |-> <<>>, workspace |-> Cwd]

NoRet ==
    [returned |-> FALSE, max |-> [exc |-> "", v |-> 0], lines |-> <<>>, text |-> <<>>,
     paths |-> [display_path |-> None, rel_path |-> None, abs_path |-> None]]

\* main's locals before main assigns them, and nothing written yet
LocalsUnset ==
    /\ payload = JNull
    /\ tool_name = JNull
    /\ pattern = JNull
    /\ command_prefix = None
    /\ workspace = Cwd
    /\ scope_label = <<>>
    /\ path_arg = None
    /\ case_insensitive = FALSE
    /\ max_results = 0
    /\ output_mode = <<>>
    /\ glob_patterns = <<>>
    /\ store_override = None
    /\ command = <<>>
    /\ runs = 0
    /\ outcome = ""
    /\ stdout = <<>>
    /\ stderr = <<>>
    /\ exc = ""
    /\ exit_status = NotExited
    /\ checks = <<>>

Init ==
    /\ pc = "read_hook_input"
    /\ LocalsUnset
    /\ DEFAULT_MAX_RESULTS \in {_env_int(value, BuiltinMaxResults) : value \in EnvMaxResults}
    /\ call = NoCall
    /\ ret = NoRet

Next ==
    \/ ReadHookInput
    \/ CheckToolName
    \/ CheckToolInput
    \/ CheckPattern
    \/ CheckDisabled
    \/ CheckToken
    \/ ResolveCommand
    \/ ResolvePaths
    \/ ParseOptions
    \/ ShapeOptions
    \/ BuildCommand
    \/ RunMgrep
    \/ Respond

Spec == Init /\ [][Next]_vars

(***************************************************************************)
(* The pure functions taken alone: Init draws one call, the action of the  *)
(* function called computes what it returns.                               *)
(***************************************************************************)
\* the values of the max-results keys parse_max_results is called with
FnMaxValues ==
    {JNull, JInt(0 - 3), JInt(7), JInt(500), JBool(TRUE), JFloat(5),
     JStr(<<"4", "2">>), JStr(<<"2", "5", "0">>), JStr(<<"-", "5">>), JStr(<<Sup2>>)}

\* the values of DEFAULT_MAX_RESULTS parse_max_results is called with
FnDefaults == {_env_int(value, BuiltinMaxResults) : value \in EnvMaxResults \cup {<<"-", "1">>, <<"1", "0", "0">>}}

LineAGo == <<"a", ".", "g", "o", ":", "1", ":", "x">>

LineBTs == <<"b", ".", "t", "s", ":", "2", ":", "y">>

LineEnv == <<".", "e", "n", "v", ":", "1", ":", "k">>

\* the result lines the functions are called with
FnLines ==
    {LineAGo, LineBTs, LineEnv, <<".", "/", "a", ".", "g", "o", ":", "2", ":", "y">>, <<"/", "w", "/", "a", ".", "g", "o", ":", "3", ":", "z">>, <<"/", "e", "/", "b", ".", "t", "s", ":", "1", ":", "x">>,
     <<"s", "/", "a", ".", "g", "o", ":", "1", ":", "x">>, <<"n", "o", "c", "o", "l", "o", "n">>, <<"a", ".", "g", "o", ":", " ", "x">>}

\* further lines extract_paths is called with
ExtractLines ==
    FnLines \cup {<<".", "/", ".", "e", "n", "v", ":", "2", ":", "x">>, <<".", "/", ".", "/", "a", ".", "g", "o", ":", "1", ":", "x">>, <<".", ".", "/", "x", ".", "g", "o", ":", "3", ":", "y">>, <<" ", "a", ".", "g", "o", ":", "1", ":", "x">>, <<".", "/", ":", "1">>,
                  <<".", ":", "1", ":", "x">>, <<"a", ":", "b", ":", "1", ":", "x">>, <<":", "3", " ", "x">>, <<"s", "/", ".", "e", "n", "v", ":", "1", ":", "k">>, <<".", "/", "/", "a", ".", "g", "o", ":", "1">>}

StarGo == <<"*", ".", "g", "o">>

\* the pattern lists filter_by_glob is called with
FnPatterns == {<<>>, <<StarGo>>, <<<<"*", ".", "t", "s">>, <<"/", "w", "/", "*">>>>, <<<<".", "e", "n", "v">>>>, <<<<"s", "/", "?", ".", "g", "o">>>>}

FnWorkspaces == {Cwd, [root |-> <<"/">>, segs |-> <<(<<"w">>), (<<"s">>)>>]}

Calls ==
    {[NoCall EXCEPT !.fn = "parse_max_results", !.tool_input = t, !.default = d] :
        t \in [MaxKeySet -> FnMaxValues], d \in FnDefaults}
    \cup {[NoCall EXCEPT !.fn = "extract_paths", !.lines = <<l>>, !.workspace = w] :
            l \in ExtractLines, w \in FnWorkspaces}
    \cup {[NoCall EXCEPT !.fn = "filter_by_glob", !.lines = ls, !.patterns = ps] :
            ls \in SeqsUpTo(FnLines, MaxLines), ps \in FnPatterns}
    \cup {[NoCall EXCEPT !.fn = "build_payload", !.lines = ls, !.output_mode = m] :
            ls \in SeqsUpTo(FnLines, MaxLines), m \in {ContentT, PathsT}}

InitFn ==
    /\ pc = "idle"
    /\ LocalsUnset
    /\ DEFAULT_MAX_RESULTS = BuiltinMaxResults
    /\ call \in Calls
    /\ ret = NoRet

CallParseMaxResults ==
    /\ call.fn = "parse_max_results"
    /\ ~ret.returned
    /\ ret' = [ret EXCEPT !.returned = TRUE,
                          !.max = parse_max_results(call.tool_input, call.default)]
    /\ UNCHANGED <<call, mainVars>>

CallExtractPaths ==
    /\ call.fn = "extract_paths"
    /\ ~ret.returned
    /\ ret' = [ret EXCEPT !.returned = TRUE,
                          !.paths = extract_paths(call.lines[1], call.workspace)]
    /\ UNCHANGED <<call, mainVars>>

CallFilterByGlob ==
    /\ call.fn = "filter_by_glob"
    /\ ~ret.returned
    /\ ret' = [ret EXCEPT !.returned = TRUE,
                          !.lines = filter_by_glob(call.lines, call.patterns, call.workspace)]
    /\ UNCHANGED <<call, mainVars>>

CallBuildPayload ==
    /\ call.fn = "build_payload"
    /\ ~ret.returned
    /\ ret' = [ret EXCEPT !.returned = TRUE,
                          !.text = build_payload(call.lines, FooT, <<".">>,
                                                 call.output_mode, call.workspace)]
    /\ UNCHANGED <<call, mainVars>>

NextFn ==
    \/ CallParseMaxResults
    \/ CallExtractPaths
    \/ CallFilterByGlob
    \/ CallBuildPayload

SpecFn == InitFn /\ [][NextFn]_vars

(***************************************************************************)
(* The claims.                                                             *)
(***************************************************************************)
BashT == <<"B", "a", "s", "h">>

Checked(name) == \E i \in 1..Len(checks) : checks[i].check = name

\* C1: a decoded payload (a mapping) whose tool_name is not "Grep", a
\* missing tool_name included, makes main skip: it ends with status 0,
\* starts no external command and writes no envelope.
C1_NonGrepPayloadSkips ==
    LET decided == Checked("tool_name") \/ (Checked("payload") /\ payload = JDict(<<>>))
    IN  (payload.t = "dict" /\ decided /\ tool_name # JStr(GrepT))
        => /\ pc = "done"
           /\ exit_status = 0
           /\ exc = ""
           /\ runs = 0
           /\ stderr = <<>>

C1_Witness ==
    /\ pc = "done"
    /\ Checked("tool_name")
    /\ tool_name = JStr(BashT)
    /\ exit_status = 0

\* C2: the hook never raises: whatever the input and however the external
\* command ends, main ends by returning 0 or 2.
C2_NeverRaises ==
    pc = "done" => (exc = "" /\ exit_status \in {0, 2})

\* C3: a run writes the envelope and exits with status 2 if and only if the
\* external command was run and exited with code 0; every other run writes
\* no envelope and exits with status 0.  The envelope has permissionDecision
\* "deny" and its four fields filled.
C3_EnvelopeIffCommandSucceeded ==
    pc = "done"
    => IF runs = 1 /\ outcome = "zero"
       THEN /\ exit_status = 2
            /\ Len(stderr) = 1
            /\ stderr[1].hookEventName = "PreToolUse"
            /\ stderr[1].permissionDecision = "deny"
            /\ stderr[1].permissionDecisionReason # ""
            /\ stderr[1].additionalContext # <<>>
       ELSE /\ exit_status = 0
            /\ stderr = <<>>

CheckOrder ==
    <<"payload", "tool_name", "tool_input", "pattern", "is_disabled", "token", "command">>

\* C4: the external command is started at most once, and only after the
\* seven checks were made in their order and all passed; a check that fails
\* is the last one made and ends the run with no command started.
C4_CommandOnlyAfterAllChecks ==
    /\ runs <= 1
    /\ Len(checks) <= Len(CheckOrder)
    /\ \A i \in 1..Len(checks) : checks[i].check = CheckOrder[i]
    /\ \A i \in 1..Len(checks) :
          ~checks[i].passed => (i = Len(checks) /\ pc = "done" /\ runs = 0)
    /\ runs = 1
       => /\ Len(checks) = Len(CheckOrder)
          /\ \A i \in 1..Len(checks) : checks[i].passed
          /\ Truthy(payload)
          /\ tool_name = JStr(GrepT)
          /\ pattern.t = "str"
          /\ \E i \in 1..Len(pattern.s) : pattern.s[i] \notin Whitespace
          /\ command_prefix # None
          /\ command_prefix # <<>>
          /\ pc \in {"respond", "done"}

C4_Witness ==
    /\ runs = 1
    /\ pc = "respond"

\* C5: the value parse_max_results resolves lies in [1,100] for every
\* tool_input and every configured default: the first usable alias wins and
\* is clamped, and the default is used only when no alias is usable.
C5_MaxResultsInRange ==
    (call.fn = "parse_max_results" /\ ret.returned)
    => LET usable(v) == IsInt(v) \/ (v.t = "str" /\ isdigit(v.s))
           first == {i \in 1..Len(MaxKeys) :
                       /\ usable(call.tool_input[MaxKeys[i]])
                       /\ \A j \in 1..(i - 1) : ~usable(call.tool_input[MaxKeys[j]])}
       IN  /\ ret.max.exc = ""
           /\ ret.max.v \in 1..100
           /\ first = {} => ret.max.v = call.default
           /\ \A i \in first :
                 LET v == call.tool_input[MaxKeys[i]]
                     n == IF IsInt(v) THEN v.n ELSE int(v.s).v
                 IN  n \in 1..100 => ret.max.v = n

Given(x) == x # None /\ x # <<>>

\* C6: every command vector main builds is prefix..., "search", "-i" iff the
\* case flag is set, "-m" and str(max_results) always, "--store" and its
\* value iff MGREP_STORE is set non-empty, the pattern, the scope argument
\* iff it is non-empty; nothing else, in this order.
C6_CommandForm ==
    command # <<>>
    => command = command_prefix
                 \o <<SearchT>>
                 \o (IF case_insensitive THEN <<DashI>> ELSE <<>>)
                 \o <<DashM, str(max_results)>>
                 \o (IF Given(store_override) THEN <<StoreFlag, store_override>> ELSE <<>>)
                 \o <<pattern.s>>
                 \o (IF Given(path_arg) THEN <<path_arg>> ELSE <<>>)

\* the pattern element of the command vector: the last one, or the one
\* before the scope argument
PatternArg == command[Len(command) - (IF Given(path_arg) THEN 1 ELSE 0)]

\* C7 as stated: past request parsing, the pattern the pipeline uses is a
\* non-empty string without leading or trailing white space.
C7_PatternTrimmed ==
    command # <<>> => (PatternArg # <<>> /\ PatternArg = strip(PatternArg))

\* C7 as amended: past request parsing, the pattern the pipeline uses is the
\* input pattern unchanged, surrounding white space kept: a string with at
\* least one character that is no white space, the same in the command
\* vector and in the response header.
C7_PatternVerbatim ==
    /\ command # <<>>
       => /\ PatternArg = pattern.s
          /\ \E i \in 1..Len(PatternArg) : PatternArg[i] \notin Whitespace
    /\ stderr # <<>>
       => startswith(stderr[1].additionalContext,
                     HeaderT \o <<"'">> \o pattern.s \o <<"'">> \o InT)

C7_Witness ==
    /\ stderr # <<>>
    /\ pattern.s = <<" ", "f", "o", "o", " ">>
    /\ PatternArg = <<" ", "f", "o", "o", " ">>

\* C8: filter_by_glob returns an order-preserving subsequence of its lines:
\* all of them for an empty pattern list, otherwise exactly the lines with
\* no extractable path or whose relative or absolute path matches a pattern;
\* with "*.go" and the lines of a.go and b.ts only the a.go line is left.
C8_FilterKeepsMatchingLines ==
    (call.fn = "filter_by_glob" /\ ret.returned)
    => LET matches(line) ==
               LET e == extract_paths(line, call.workspace)
               IN  \/ e.display_path = None
                   \/ \E i \in 1..Len(call.patterns) :
                         \/ fnmatch(e.rel_path, call.patterns[i])
                         \/ fnmatch(e.abs_path, call.patterns[i])
       IN  /\ Len(ret.lines) <= Len(call.lines)
           /\ call.patterns = <<>> => ret.lines = call.lines
           /\ call.patterns # <<>> => ret.lines = SelectSeq(call.lines, matches)
           /\ (call.patterns = <<StarGo>> /\ call.lines = <<LineAGo, LineBTs>>)
              => ret.lines = <<LineAGo>>

C8_Witness ==
    /\ call.fn = "filter_by_glob"
    /\ ret.returned
    /\ call.patterns = <<StarGo>>
    /\ call.lines = <<LineAGo, LineBTs>>
    /\ ret.lines = <<LineAGo>>

\* C9: in "paths" mode the body of a non-empty line list holds the distinct
\* best display values of the lines (display path, else relative path, else
\* absolute path, else the line), each once, in order of first occurrence;
\* in "content" mode the body is the lines unchanged.
C9_PathsBodyHasNoDuplicates ==
    (call.fn = "build_payload" /\ ret.returned /\ call.lines # <<>>)
    => LET body == Tail(splitlines(ret.text))
           best(k) ==
               LET e == extract_paths(call.lines[k], call.workspace)
               IN  IF Given(e.display_path) THEN e.display_path
                   ELSE IF Given(e.rel_path) THEN e.rel_path
                   ELSE IF Given(e.abs_path) THEN e.abs_path
                   ELSE call.lines[k]
           first(v) == CHOOSE k \in 1..Len(call.lines) :
                          /\ best(k) = v
                          /\ \A j \in 1..(k - 1) : best(j) # v
       IN  IF call.output_mode = PathsT
           THEN /\ \A i, j \in 1..Len(body) : i # j => body[i] # body[j]
                /\ {body[i] : i \in 1..Len(body)} = {best(k) : k \in 1..Len(call.lines)}
                /\ \A i, j \in 1..Len(body) : i < j => first(body[i]) < first(body[j])
           ELSE body = call.lines

C9_Witness ==
    /\ call.fn = "build_payload"
    /\ ret.returned
    /\ call.output_mode = PathsT
    /\ call.lines = <<LineAGo, <<"/", "w", "/", "a", ".", "g", "o", ":", "3", ":", "z">>>>
    /\ Tail(splitlines(ret.text)) = <<<<"a", ".", "g", "o">>>>

\* C10: for a line whose path token is workspace-relative and has no ".."
\* segment, relative_path is the token with at most one leading "./"
\* removed, and absolute_path is that path under the workspace, also for a
\* token that starts with a dot without a slash, such as ".env".
C10_RelativePathNamesTheFile ==
    (call.fn = "extract_paths" /\ ret.returned /\ Given(RawPath(call.lines[1])))
    => LET token == strip(RawPath(call.lines[1]))
           expected == IF startswith(token, <<".", "/">>) THEN DropFirst(token, 2) ELSE token
           segs == split(expected, "/", <<>>)
           plain == /\ expected # <<>>
                    /\ ~DriveLetter(expected)
                    /\ \A i \in 1..Len(segs) : segs[i] \notin {<<>>, <<".">>, <<".", ".">>}
       IN  plain => /\ ret.paths.rel_path = expected
                    /\ ret.paths.abs_path = as_posix(call.workspace) \o <<"/">> \o expected

====
